---- MODULE Spec2Model ----
(***************************************************************************)
(* A model of the photo sorter: sort_photos_by_location.py (the pipeline  *)
(* sort_photos and the pure functions it calls) and gui.py (the window    *)
(* that runs sort_photos in a worker thread).                             *)
(*                                                                         *)
(* Strings that the code takes apart (addresses, file names) are          *)
(* sequences of one-character strings.  Angles are integers counted in    *)
(* arc-seconds (1 degree = 3600), so degrees + minutes/60 + seconds/3600  *)
(* is exact.  The two external services are abstracted: the geocoder is a *)
(* fixed address book that may fail on any call, and geopy's geodesic     *)
(* distance is the taxicab distance of the two coordinates; the threshold *)
(* max_distance_km is counted in the same unit.                           *)
(***************************************************************************)
EXTENDS Integers, Sequences, FiniteSets, TLC

\* ------------------------------------------------------------------ bounds
\* The longest address list and the largest number of image files of a run.
MaxAddresses == 2
MaxImages == 2

\* --------------------------------------------------------------- helpers
None == [none |-> TRUE]

Abs(n) == IF n < 0 THEN -n ELSE n

\* All orderings of a finite set, as sequences without repetition.
Orderings(S) ==
    {s \in [1..Cardinality(S) -> S] : \A a, b \in 1..Cardinality(S) : a # b => s[a] # s[b]}

\* ------------------------------------------------- coordinates (lines 152-167)
GPSCoordinates(lat, lon) == [latitude |-> lat, longitude |-> lon]

Location(name, address, coordinates) ==
    [name |-> name, address |-> address, coordinates |-> coordinates]

\* ------------------------------------------------ dms_to_decimal (170-201)
\* An element of a DMS triple as Pillow may hand it over: a Python int or an
\* IFDRational (both have .numerator/.denominator), a float, or something that
\* is no number at all.
IntElem(n) == [kind |-> "int", num |-> n, den |-> 1]
RatElem(n, d) == [kind |-> "rational", num |-> n, den |-> d]
FloatElem(n) == [kind |-> "float", num |-> n, den |-> 1]
StrElem == [kind |-> "str", num |-> 0, den |-> 1]

HasNumerator(e) == e.kind \in {"int", "rational"}

Raised(exc) == [exc |-> exc, value |-> 0, nan |-> FALSE]
Returned(v) == [exc |-> "none", value |-> v, nan |-> FALSE]
\* float('nan'), returned as a value.
NotANumber == [exc |-> "none", value |-> 0, nan |-> TRUE]

\* The exception, if any, that reading element e in the IFDRational branch
\* (float(e.numerator) / float(e.denominator)) raises.
RationalReadExc(e) ==
    IF ~HasNumerator(e) THEN "AttributeError"
    ELSE IF e.den = 0 THEN "ZeroDivisionError"
    ELSE "none"

\* The exception, if any, that float(e) raises in the plain branch.
FloatReadExc(e) ==
    IF e.kind = "str" THEN "ValueError"
    ELSE "none"

\* The first exception the try block of dms_to_decimal raises, "none" if none:
\* the elements are read in the order 0, 1, 2, and a missing one is an IndexError.
DmsTryExc(dms) ==
    IF Len(dms) = 0 THEN "IndexError"
    ELSE LET rat == HasNumerator(dms[1])
             ReadExc(k) == IF Len(dms) < k THEN "IndexError"
                           ELSE IF rat THEN RationalReadExc(dms[k])
                           ELSE FloatReadExc(dms[k])
         IN  IF ReadExc(1) # "none" THEN ReadExc(1)
             ELSE IF ReadExc(2) # "none" THEN ReadExc(2)
             ELSE ReadExc(3)

\* scale * num / den: the element's value in units of 1/scale.
ElemValue(e, scale) == (e.num * scale) \div e.den

\* In the plain branch float(e) of a rational with denominator 0 raises nothing:
\* Pillow's IFDRational holds float('nan') then, and the sum is nan.
ReadsNaN(dms) == ~HasNumerator(dms[1]) /\ \E k \in 1..3 : dms[k].den = 0

\* Mutant: only S negates.
SignedSouthOnly(decimal, ref) == IF ref = "S" THEN -decimal ELSE decimal

\* `if ref in ('S', 'W'): decimal = -decimal` (196-197)
Signed(decimal, ref) == IF ref \in {"S", "W"} THEN -decimal ELSE decimal

dms_to_decimal(dms, ref) ==
    LET exc == DmsTryExc(dms) IN
    IF exc \in {"TypeError", "ZeroDivisionError", "IndexError"} THEN Raised("ValueError")
    ELSE IF exc # "none" THEN Raised(exc)
    ELSE IF ReadsNaN(dms) THEN NotANumber
    ELSE LET decimal == ElemValue(dms[1], 3600) + ElemValue(dms[2], 60) + ElemValue(dms[3], 1)
         IN  Returned(Signed(decimal, ref))

\* ---------------------------------------- extract_gps_from_image (204-255)
\* What an image file holds for the extraction: whether it opens and has EXIF
\* ("open_fails", "no_exif", "exif"), the keys of its GPSInfo block (empty when
\* there is none) and the values under them.
Geotag(exif, keys, lat, latRef, lon, lonRef) ==
    [exif |-> exif, keys |-> keys, lat |-> lat, latRef |-> latRef,
     lon |-> lon, lonRef |-> lonRef]

\* Mutant: the except branch returns the origin instead of None.
ExtractDefaultsOnError(tag) ==
    IF tag.exif = "open_fails" THEN [coords |-> GPSCoordinates(0, 0), warned |-> TRUE]
    ELSE IF tag.exif = "no_exif" THEN [coords |-> None, warned |-> FALSE]
    ELSE IF tag.keys = {} THEN [coords |-> None, warned |-> FALSE]
    ELSE IF ~({"GPSLatitude", "GPSLatitudeRef"} \subseteq tag.keys)
         THEN [coords |-> None, warned |-> FALSE]
    ELSE LET lat == dms_to_decimal(tag.lat, tag.latRef) IN
         IF lat.exc # "none" THEN [coords |-> GPSCoordinates(0, 0), warned |-> TRUE]
         ELSE IF ~({"GPSLongitude", "GPSLongitudeRef"} \subseteq tag.keys)
              THEN [coords |-> None, warned |-> FALSE]
         ELSE LET lon == dms_to_decimal(tag.lon, tag.lonRef) IN
              IF lon.exc # "none" THEN [coords |-> GPSCoordinates(0, 0), warned |-> TRUE]
              ELSE [coords |-> GPSCoordinates(lat.value, lon.value), warned |-> FALSE]

\* [coords |-> the result, warned |-> whether the except branch printed a warning]
extract_gps_from_image(tag) ==
    IF tag.exif = "open_fails" THEN [coords |-> None, warned |-> TRUE]
    ELSE IF tag.exif = "no_exif" THEN [coords |-> None, warned |-> FALSE]
    ELSE IF tag.keys = {} THEN [coords |-> None, warned |-> FALSE]
    ELSE IF ~({"GPSLatitude", "GPSLatitudeRef"} \subseteq tag.keys)
         THEN [coords |-> None, warned |-> FALSE]
    ELSE LET lat == dms_to_decimal(tag.lat, tag.latRef) IN
         IF lat.exc # "none" THEN [coords |-> None, warned |-> TRUE]
         ELSE IF ~({"GPSLongitude", "GPSLongitudeRef"} \subseteq tag.keys)
              THEN [coords |-> None, warned |-> FALSE]
         ELSE LET lon == dms_to_decimal(tag.lon, tag.lonRef) IN
              IF lon.exc # "none" THEN [coords |-> None, warned |-> TRUE]
              ELSE [coords |-> GPSCoordinates(lat.value, lon.value), warned |-> FALSE]

\* ------------------------------------------- find_closest_location (333-368)
\* geopy.distance.geodesic(a, b).kilometers, abstracted (see the header).
geodesic(a, b) == Abs(a.latitude - b.latitude) + Abs(a.longitude - b.longitude)

\* closest_distance = float('inf') is -1 here: every distance is below it.
Inf == -1
\* Mutant: `distance <= closest_distance`, the last of several nearest wins.
LessOrEqual(d, best) == best = Inf \/ d <= best

\* `distance < closest_distance` (361)
Less(d, best) == best = Inf \/ d < best

\* The loop of lines 352-363 from index k on, with the closest so far.
RECURSIVE ClosestFrom(_, _, _, _, _)
ClosestFrom(coords, locations, k, closest_location, closest_distance) ==
    IF k > Len(locations)
    THEN [location |-> closest_location, distance |-> closest_distance]
    ELSE LET location == locations[k] IN
         IF location.coordinates = None
         THEN ClosestFrom(coords, locations, k + 1, closest_location, closest_distance)
         ELSE LET distance == geodesic(coords, location.coordinates) IN
              IF Less(distance, closest_distance)
              THEN ClosestFrom(coords, locations, k + 1, location, distance)
              ELSE ClosestFrom(coords, locations, k + 1, closest_location, closest_distance)

\* Mutant: the threshold is exclusive.
WithinThresholdStrict(closest_distance, max_distance_km) == closest_distance < max_distance_km

WithinThreshold(closest_distance, max_distance_km) == closest_distance <= max_distance_km

find_closest_location(coords, locations, max_distance_km) ==
    LET best == ClosestFrom(coords, locations, 1, None, Inf) IN
    IF best.location # None /\ WithinThreshold(best.distance, max_distance_km)
    THEN best.location
    ELSE None

\* -------------------------------------------- sanitize_folder_name (371-390)
InvalidChars == {"<", ">", ":", "\"", "/", "\\", "|", "?", "*"}
MaxNameLen == 100
Whitespace == {" ", "\t", "\n"}

ReplaceInvalid(name) == [k \in 1..Len(name) |-> IF name[k] \in InvalidChars THEN "_" ELSE name[k]]

Truncate(name) == IF Len(name) > MaxNameLen THEN SubSeq(name, 1, MaxNameLen) ELSE name

\* str.strip(): drop the leading and the trailing whitespace.
Strip(name) ==
    LET keep == {k \in 1..Len(name) : name[k] \notin Whitespace} IN
    IF keep = {} THEN <<>>
    ELSE SubSeq(name, CHOOSE k \in keep : \A j \in keep : k <= j,
                      CHOOSE k \in keep : \A j \in keep : k >= j)

\* Mutant: the name is trimmed before it is cut.
SanitizeTrimsFirst(name) == Truncate(Strip(ReplaceInvalid(name)))

sanitize_folder_name(name) == Strip(Truncate(ReplaceInvalid(name)))

\* ----------------------------------------------------- find_images (316-330)
\* A file of the images folder: the subfolder it lies in and its name.
File(dir, name) == [dir |-> dir, name |-> name]

IMAGE_EXTENSIONS ==
    { <<".", "j", "p", "g">>, <<".", "j", "p", "e", "g">>, <<".", "p", "n", "g">>,
      <<".", "t", "i", "f", "f">>, <<".", "t", "i", "f">>,
      <<".", "h", "e", "i", "c">>, <<".", "h", "e", "i", "f">> }

UpperChar(c) ==
    CASE c = "j" -> "J" [] c = "p" -> "P" [] c = "g" -> "G" [] c = "e" -> "E"
      [] c = "n" -> "N" [] c = "t" -> "T" [] c = "i" -> "I" [] c = "f" -> "F"
      [] c = "h" -> "H" [] c = "c" -> "C" [] OTHER -> c

Upper(s) == [k \in 1..Len(s) |-> UpperChar(s[k])]

EndsWith(name, ext) ==
    Len(name) >= Len(ext) /\ SubSeq(name, Len(name) - Len(ext) + 1, Len(name)) = ext

\* rglob(f'*{ext}') on a file system whose names are case-sensitive.
RGlob(files, ext) == {f \in files : EndsWith(f.name, ext)}

\* The set of which the returned list is some ordering.
find_images(files) ==
    UNION {RGlob(files, ext) \cup RGlob(files, Upper(ext)) : ext \in IMAGE_EXTENSIONS}

\* pathlib's PurePath.suffix and .stem: the suffix starts at the last dot, unless
\* that dot opens or ends the name.
LastDot(name) ==
    LET dots == {k \in 1..Len(name) : name[k] = "."} IN
    IF dots = {} THEN 0 ELSE CHOOSE k \in dots : \A j \in dots : k >= j

PathSuffix(name) ==
    LET i == LastDot(name) IN
    IF i > 1 /\ i < Len(name) THEN SubSeq(name, i, Len(name)) ELSE <<>>

PathStem(name) ==
    LET i == LastDot(name) IN
    IF i > 1 /\ i < Len(name) THEN SubSeq(name, 1, i - 1) ELSE name

\* ------------------------------------------------------------ the inputs
AddrA == <<"A">>
AddrB == <<"B", "/">>
\* A third address, whose folder name is AddrB's.
AddrC == <<"B", "?">>
AddressUniverse == {AddrA, AddrB}

\* The geocoding service's answer when it answers: a coordinate, or None for an
\* address it does not know.
AddressBook(address) ==
    IF address = AddrA THEN GPSCoordinates(0, 0)
    ELSE IF address = AddrB THEN GPSCoordinates(0, 2)
    ELSE IF address = AddrC THEN GPSCoordinates(0, 4)
    ELSE None

\* How one call of geocoder.geocode ends: with the address book's answer, with
\* None (nothing found), or with one of the two exceptions.
GeocoderOutcomes == {"answer", "not_found", "GeocoderTimedOut", "GeocoderServiceError"}

NameP == <<"p", ".", "j", "p", "g">>
NameQ == <<"q", ".", "J", "P", "G">>
NameNotes == <<"n", ".", "t", "x", "t">>
\* The images folder always holds the notes, which are no image.
DirA == <<"a">>
DirB == <<"b">>
ImageUniverse == {File(DirA, NameP), File(DirB, NameP), File(DirA, NameQ)}
OtherFiles == {File(DirA, NameNotes)}

GpsKeys == {"GPSLatitude", "GPSLatitudeRef", "GPSLongitude", "GPSLongitudeRef"}
Zero == <<IntElem(0), IntElem(0), IntElem(0)>>
GoodTag(lonSeconds) ==
    Geotag("exif", GpsKeys, Zero, "N", <<IntElem(0), IntElem(0), IntElem(lonSeconds)>>, "E")
TagOpenFails == Geotag("open_fails", {}, Zero, "N", Zero, "E")
TagNoExif == Geotag("no_exif", {}, Zero, "N", Zero, "E")
TagNoGpsBlock == Geotag("exif", {}, Zero, "N", Zero, "E")
TagNoLatitude == Geotag("exif", {"GPSLongitude", "GPSLongitudeRef"}, Zero, "N", Zero, "E")
TagNoLongitudeRef == Geotag("exif", GpsKeys \ {"GPSLongitudeRef"}, Zero, "N", Zero, "E")
TagZeroDenominator ==
    Geotag("exif", GpsKeys, <<RatElem(1, 0), RatElem(0, 1), RatElem(0, 1)>>, "N", Zero, "E")
TagShortTriple == Geotag("exif", GpsKeys, Zero, "N", <<IntElem(0), IntElem(0)>>, "E")
\* Whether the geotag holds a coordinate, said without the extraction code: EXIF
\* with a GPS block in which both axes have a reference and a triple of three
\* numbers, no denominator zero. Kept in the history of a run.
WellFormed(dms) ==
    /\ Len(dms) >= 3
    /\ \A k \in 1..3 : dms[k].kind \in {"int", "rational", "float"} /\ dms[k].den # 0

Decodable(tag) ==
    /\ tag.exif = "exif"
    /\ GpsKeys \subseteq tag.keys
    /\ WellFormed(tag.lat)
    /\ WellFormed(tag.lon)

\* The geotags an image of a run may carry.
Geotags ==
    {TagOpenFails, TagNoExif, TagNoGpsBlock, TagNoLatitude, TagNoLongitudeRef,
     TagZeroDenominator, TagShortTriple, GoodTag(1), GoodTag(3)}

\* Photos at 1 (near AddrB), 3 (as near AddrB as AddrC), 5 (near AddrC), and
\* one without EXIF.
NamesGeotags == {GoodTag(1), GoodTag(3), GoodTag(5), TagNoExif}

\* The geotags on which extract_gps_from_image takes its except branch.
UnreadableGeotags == {TagOpenFails, TagZeroDenominator, TagShortTriple}

GuiGeotags == {GoodTag(1), TagNoExif}

\* The geotags the images of a run are drawn from, by the name the run's input
\* gives the collection.
TagsOf(collection) ==
    CASE collection = "any" -> Geotags
      [] collection = "located" -> NamesGeotags
      [] collection = "unreadable" -> UnreadableGeotags \cup {GoodTag(1)}
      [] collection = "few" -> GuiGeotags

\* The threshold of a run: a photo at 1 is as far from AddrA as from AddrB and
\* exactly at the threshold, a photo at 3 is within it of AddrB alone.
MaxDistances == {1}

\* ------------------------------------------------------------- the state
VARIABLES
    addresses,          \* sort_photos' parameter: the address list
    max_distance_km,    \* its parameter
    copy_mode,          \* its parameter
    images_root,        \* what images_folder is: "dir", "missing" or "file"
    output_inside,      \* whether output_folder lies under images_folder
    geotags,            \* which geotags the images under images_folder carry (see TagsOf)
    srcFiles,           \* the files under images_folder
    cancel_requested,   \* what progress_callback.is_cancelled() returns
    pc,                 \* where sort_photos is
    exitPath,           \* which exit it took
    i,                  \* completed iterations of the loop it is in
    locations,          \* the Location list
    images,             \* the list find_images returned
    stats,              \* the statistics dict
    retval,             \* what sort_photos returned
    outputCreated,      \* whether the run made output_folder
    outDirs,            \* the subfolders of output_folder
    outFiles,           \* the files in them: [folder, name, content]
    events,             \* the notifications delivered to the sink, in order
    fsOps,              \* history: the run's mkdir / copy / move calls
    processed,          \* history: one record per image classified
    cancelSeen,         \* history: is_cancelled() has returned true
    polls,              \* history: the calls of is_cancelled()
    call,               \* one call of a pure function: its arguments and result
    is_running,         \* PhotoSorterGUI.is_running
    start_button,       \* the state of the Start button: "normal" or "disabled"
    cancel_button,      \* the state of the Cancel button
    status_var,         \* the status line
    handled,            \* how many of `events` the foreground has taken off message_queue
    seen,               \* history: the types of the messages handled, in order
    fg,                 \* the foreground: "idle", "draining" (in _process_queue) or "dialog"
    workers,            \* the worker threads alive
    runs                \* the workers launched so far

inputVars == <<addresses, max_distance_km, copy_mode, images_root, output_inside, geotags>>
fsVars == <<srcFiles, outputCreated, outDirs, outFiles, fsOps>>
runVars == <<pc, exitPath, i, locations, images, stats, retval, events, processed, cancelSeen,
             polls>>
guiVars == <<is_running, start_button, cancel_button, status_var, handled, seen, fg, workers,
             runs>>
vars == <<inputVars, fsVars, runVars, cancel_requested, call, guiVars>>

NoGpsFolder == <<"_no_gps_data">>
UnknownFolder == <<"_unknown_location">>

EmptyStats ==
    [total_images |-> 0, sorted_images |-> 0, no_gps_images |-> 0, no_match_images |-> 0,
     locations |-> [n \in {} |-> 0]]

NoCall == [fn |-> "none", done |-> FALSE]

\* PhotoSorterGUI.__init__ and _create_widgets (gui.py 63-79, 174, 200-205).
IdleGui ==
    /\ is_running = FALSE
    /\ start_button = "normal"
    /\ cancel_button = "disabled"
    /\ status_var = "Ready"
    /\ handled = 0
    /\ seen = <<>>
    /\ fg = "idle"
    /\ workers = 0
    /\ runs = 0

InitRun ==
    /\ pc = "start"
    /\ exitPath = "running"
    /\ i = 0
    /\ locations = <<>>
    /\ images = <<>>
    /\ stats = EmptyStats
    /\ retval = None
    /\ events = <<>>
    /\ processed = <<>>
    /\ cancelSeen = FALSE
    /\ polls = <<>>
    /\ cancel_requested = FALSE
    /\ IdleGui

Init ==
    /\ addresses \in UNION {[1..n -> AddressUniverse] : n \in 0..MaxAddresses}
    /\ max_distance_km \in MaxDistances
    /\ copy_mode \in BOOLEAN
    /\ images_root = "dir"
    /\ output_inside = FALSE
    /\ geotags = "any"
    /\ srcFiles \in {S \cup OtherFiles : S \in {T \in SUBSET ImageUniverse : Cardinality(T) <= MaxImages}}
    /\ outputCreated = FALSE
    /\ outDirs = {}
    /\ outFiles = {}
    /\ fsOps = <<>>
    /\ InitRun
    /\ call = NoCall

\* ------------------------------------------------- sort_photos (393-542)
Event(type) == [type |-> type]

Deliver(evs) == events' = events \o evs

\* Mutant: a bare `return`.
ReturnsNothing(path, st) ==
    /\ pc' = "returned"
    /\ exitPath' = path
    /\ retval' = None

\* `return stats`
Return(path, st) ==
    /\ pc' = "returned"
    /\ exitPath' = path
    /\ retval' = st

\* Mutant: is_cancelled() is called twice in a row.
PollTwice(history, phase, index) ==
    history \o <<[phase |-> phase, index |-> index], [phase |-> phase, index |-> index]>>

\* One call of progress_callback.is_cancelled() (437, 478), at the head of
\* iteration `index` of the loop of `phase`.
Poll(history, phase, index) == Append(history, [phase |-> phase, index |-> index])

\* Mutant: the flag is polled and not acted on.
ShouldStopIgnoresFlag(flag) == FALSE

\* `if progress_callback.is_cancelled(): return stats` (437-438, 478-479)
ShouldStop(flag) == flag

\* valid_locations (450)
ValidLocations(locs) == SelectSeq(locs, LAMBDA loc : loc.coordinates # None)

\* Mutant: the run goes on without a location.
NoValidLocationsUnchecked(valid) == FALSE

\* `if not valid_locations` (453)
NoValidLocations(valid) == valid = <<>>

\* Mutant: an address that did not resolve leaves no Location.
RecordLocationIfResolved(locs, location) ==
    IF location.coordinates = None THEN locs ELSE Append(locs, location)

\* locations.append(location) (446)
RecordLocation(locs, location) == Append(locs, location)

\* geocode_address (258-279): the coordinate, or None when the service finds
\* nothing or raises GeocoderTimedOut / GeocoderServiceError.
geocode_address(address, outcome) ==
    IF outcome = "answer" THEN AddressBook(address) ELSE None

\* Lines 417-434.
GeocodingStart ==
    /\ pc = "start"
    /\ pc' = "geo_poll"
    /\ Deliver(<<[type |-> "geocoding_start", total |-> Len(addresses)]>>)
    /\ UNCHANGED <<call, guiVars, inputVars, fsVars, cancel_requested, exitPath, i, locations,
                   images, stats, retval, processed, cancelSeen, polls>>

\* Lines 436-438: the head of one iteration of the geocoding loop.
GeocodePoll ==
    /\ pc = "geo_poll"
    /\ i < Len(addresses)
    /\ cancelSeen' = (cancelSeen \/ cancel_requested)
    /\ polls' = Poll(polls, "geocoding", i + 1)
    /\ UNCHANGED <<call, guiVars, inputVars, fsVars, cancel_requested, i, locations, images, stats,
                   events, processed>>
    /\ IF ShouldStop(cancel_requested)
       THEN Return("cancelled", stats)
       ELSE pc' = "geo_body" /\ UNCHANGED <<exitPath, retval>>

\* Lines 440-447: the rest of the iteration.
GeocodeAddress ==
    /\ pc = "geo_body"
    /\ \E outcome \in GeocoderOutcomes :
         LET address == addresses[i + 1]
             coords == geocode_address(address, outcome)
         IN  /\ locations' = RecordLocation(locations,
                                            Location(sanitize_folder_name(address), address,
                                                     coords))
             /\ Deliver(<<[type |-> "geocoding_progress", current |-> i + 1,
                           address |-> address, success |-> coords # None]>>)
    /\ i' = i + 1
    /\ pc' = "geo_poll"
    /\ UNCHANGED <<call, guiVars, inputVars, fsVars, cancel_requested, exitPath, images, stats,
                   retval, processed, cancelSeen, polls>>

\* Lines 449-455: after the loop.
GeocodingComplete ==
    /\ pc = "geo_poll"
    /\ i = Len(addresses)
    /\ LET valid_locations == ValidLocations(locations)
           done == [type |-> "geocoding_complete", successful |-> Len(valid_locations),
                    total |-> Len(addresses)]
       IN  IF NoValidLocations(valid_locations)
           THEN /\ Deliver(<<done, [type |-> "log", message |-> "no_addresses_geocoded"]>>)
                /\ Return("no_locations", stats)
           ELSE /\ Deliver(<<done>>)
                /\ pc' = "scan"
                /\ UNCHANGED <<exitPath, retval>>
    /\ UNCHANGED <<call, guiVars, inputVars, fsVars, cancel_requested, i, locations, images, stats,
                   processed, cancelSeen, polls>>

\* What a walk of images_folder meets: its own files and, when output_folder lies
\* under it, the files placed there.
OutputFiles == {File(f.folder, f.name) : f \in outFiles}
FilesUnderRoot == srcFiles \cup (IF output_inside THEN OutputFiles ELSE {})

\* Mutant: on_scanning_start is called after the scan.
ScanningEventsStartLast(count) ==
    <<[type |-> "scanning_complete", count |-> count], Event("scanning_start")>>

\* on_scanning_start and on_scanning_complete (458, 461).
ScanningEvents(count) ==
    <<Event("scanning_start"), [type |-> "scanning_complete", count |-> count]>>

\* Lines 457-475: discovery, and the start of the sorting phase.
ScanImages ==
    /\ pc = "scan"
    /\ \E found \in Orderings(find_images(FilesUnderRoot)) :
         /\ images' = found
         /\ stats' = [stats EXCEPT !.total_images = Len(found)]
         /\ LET scanned == ScanningEvents(Len(found))
            IN  IF found = <<>>
                THEN /\ Deliver(Append(scanned, [type |-> "log", message |-> "no_images_found"]))
                     /\ Return("no_images", stats')
                     /\ UNCHANGED <<outputCreated, fsOps>>
                ELSE /\ Deliver(Append(scanned, [type |-> "sorting_start", total |-> Len(found)]))
                     /\ outputCreated' = TRUE
                     /\ fsOps' = Append(fsOps, [op |-> "mkdir", folder |-> <<>>])
                     /\ pc' = "sort_poll"
                     /\ UNCHANGED <<exitPath, retval>>
    /\ i' = 0
    /\ UNCHANGED <<call, guiVars, inputVars, srcFiles, outDirs, outFiles, cancel_requested,
                   locations, processed, cancelSeen, polls>>

\* Lines 477-479: the head of one iteration of the sorting loop.
SortPoll ==
    /\ pc = "sort_poll"
    /\ i < Len(images)
    /\ cancelSeen' = (cancelSeen \/ cancel_requested)
    /\ polls' = Poll(polls, "sorting", i + 1)
    /\ UNCHANGED <<call, guiVars, inputVars, fsVars, cancel_requested, i, locations, images, stats,
                   events, processed>>
    /\ IF ShouldStop(cancel_requested)
       THEN Return("cancelled", stats)
       ELSE pc' = "sort_body" /\ UNCHANGED <<exitPath, retval>>

\* The outcome of one image (484, 500).
Outcome(coords, closest) ==
    IF coords = None THEN "no_gps" ELSE IF closest = None THEN "no_match" ELSE "matched"

\* The destination subfolder (472, 471, 514).
DestinationFolder(outcome, closest) ==
    IF outcome = "no_gps" THEN NoGpsFolder
    ELSE IF outcome = "no_match" THEN UnknownFolder
    ELSE closest.name

\* Lines 520-525: the first of name, stem_1.ext, stem_2.ext, ... that does not exist.
RECURSIVE FreeName(_, _, _)
FreeName(existing, name, counter) ==
    LET dest == PathStem(name) \o <<"_", ToString(counter)>> \o PathSuffix(name) IN
    IF dest \in existing THEN FreeName(existing, name, counter + 1) ELSE dest

\* dest (488, 504, 517-525), given the names that exist in the destination folder.
DestinationName(outcome, existing, name) ==
    IF outcome = "matched" /\ name \in existing THEN FreeName(existing, name, 1) ELSE name

\* Mutant: the two special folders are made along with the first folder.
MkdirSpecialFoldersToo(dirs, folder) == dirs \cup {folder, NoGpsFolder, UnknownFolder}

\* folder.mkdir(exist_ok=True) (487, 503, 515)
Mkdir(dirs, folder) == dirs \cup {folder}

\* shutil.copy2 / shutil.move to dest: a file that is there is replaced.
Place(files, folder, name, content) ==
    {f \in files : ~(f.folder = folder /\ f.name = name)}
        \cup {[folder |-> folder, name |-> name, content |-> content]}

\* Mutant: the no-match branch forgets its counter.
CountBeforePlacementSkipsNoMatch(st, outcome) ==
    IF outcome = "no_gps" THEN [st EXCEPT !.no_gps_images = @ + 1] ELSE st

\* Mutant: the no-GPS branch counts in no_match_images.
CountBeforePlacementMixesCounters(st, outcome) ==
    IF outcome \in {"no_gps", "no_match"} THEN [st EXCEPT !.no_match_images = @ + 1] ELSE st

\* The counter updates that precede the copy or move (485, 501).
CountBeforePlacement(st, outcome) ==
    IF outcome = "no_gps" THEN [st EXCEPT !.no_gps_images = @ + 1]
    ELSE IF outcome = "no_match" THEN [st EXCEPT !.no_match_images = @ + 1]
    ELSE st

\* Mutant: the count is set, not incremented.
TrackLocationSetsOne(locs, name) ==
    [n \in DOMAIN locs \cup {name} |-> IF n = name THEN 1 ELSE locs[n]]

\* Lines 535-537.
TrackLocation(locs, name) ==
    LET inserted == [n \in DOMAIN locs \cup {name} |-> IF n \in DOMAIN locs THEN locs[n] ELSE 0]
    IN  [inserted EXCEPT ![name] = @ + 1]

\* Mutant: the no-GPS image is counted again after its placement.
CountAfterPlacementCountsAgain(st, outcome, name) ==
    IF outcome = "matched"
    THEN [st EXCEPT !.sorted_images = @ + 1, !.locations = TrackLocation(@, name)]
    ELSE IF outcome = "no_gps" THEN [st EXCEPT !.no_gps_images = @ + 1]
    ELSE st

\* Mutant: the matched branch counts per location only.
CountAfterPlacementSkipsSorted(st, outcome, name) ==
    IF outcome = "matched"
    THEN [st EXCEPT !.locations = TrackLocation(@, name)]
    ELSE st

\* The counter updates that follow it (532-537).
CountAfterPlacement(st, outcome, name) ==
    IF outcome = "matched"
    THEN [st EXCEPT !.sorted_images = @ + 1, !.locations = TrackLocation(@, name)]
    ELSE st

\* Mutant: the images are numbered from 0.
SortingProgressFromZero(index, image_path, folder) ==
    [type |-> "sorting_progress", current |-> index, filename |-> image_path.name,
     destination |-> folder]

\* on_sorting_progress(i + 1, image_path.name, dest_folder_name) (539), in the
\* iteration with enumerate's index.
SortingProgress(index, image_path, folder) ==
    [type |-> "sorting_progress", current |-> index + 1, filename |-> image_path.name,
     destination |-> folder]

\* Lines 481-539: the rest of the iteration. The copy or move may fail, and the
\* exception leaves sort_photos.
ClassifyImage ==
    /\ pc = "sort_body"
    /\ \E tag \in TagsOf(geotags), fails \in BOOLEAN :
       \E coords \in {extract_gps_from_image(tag).coords} :
       \E closest \in {IF coords = None THEN None
                        ELSE find_closest_location(coords, ValidLocations(locations),
                                                   max_distance_km)} :
         LET image_path == images[i + 1]
             outcome == Outcome(coords, closest)
             folder == DestinationFolder(outcome, closest)
             existing == {f.name : f \in {g \in outFiles : g.folder = folder}}
             dest == DestinationName(outcome, existing, image_path.name)
             counted == CountBeforePlacement(stats, outcome)
             record == [image |-> image_path, decodable |-> Decodable(tag), coords |-> coords,
                        matcher |-> coords # None, closest |-> closest,
                        outcome |-> outcome, folder |-> folder, dest |-> dest,
                        replaced |-> dest \in existing, placed |-> ~fails]
         IN  /\ outDirs' = Mkdir(outDirs, folder)
             /\ processed' = Append(processed, record)
             /\ IF fails
                THEN /\ stats' = counted
                     /\ fsOps' = Append(fsOps, [op |-> "mkdir", folder |-> folder])
                     /\ pc' = "raised"
                     /\ exitPath' = "raised"
                     /\ UNCHANGED <<srcFiles, outFiles, events, i, retval>>
                ELSE /\ stats' = CountAfterPlacement(counted, outcome, folder)
                     /\ outFiles' = Place(outFiles, folder, dest, image_path)
                     /\ srcFiles' = IF copy_mode THEN srcFiles ELSE srcFiles \ {image_path}
                     /\ fsOps' = fsOps \o <<[op |-> "mkdir", folder |-> folder],
                                            [op |-> IF copy_mode THEN "copy" ELSE "move",
                                             folder |-> folder]>>
                     /\ Deliver(<<SortingProgress(i, image_path, folder)>>)
                     /\ i' = i + 1
                     /\ pc' = "sort_poll"
                     /\ UNCHANGED <<exitPath, retval>>
    /\ UNCHANGED <<call, guiVars, inputVars, outputCreated, cancel_requested, locations, images,
                   cancelSeen, polls>>

\* Lines 541-542: after the loop.
SortingComplete ==
    /\ pc = "sort_poll"
    /\ i = Len(images)
    /\ Deliver(<<[type |-> "sorting_complete", stats |-> stats]>>)
    /\ Return("complete", stats)
    /\ UNCHANGED <<call, guiVars, inputVars, fsVars, cancel_requested, i, locations, images, stats,
                   processed, cancelSeen, polls>>

\* The sink's owner asks the run to stop (CLIProgressCallback._cancelled,
\* PhotoSorterGUI.cancel_requested), at any moment of the run.
RequestCancel ==
    /\ pc \notin {"returned", "raised"}
    /\ ~cancel_requested
    /\ cancel_requested' = TRUE
    /\ UNCHANGED <<call, guiVars, inputVars, fsVars, runVars>>

Next ==
    \/ GeocodingStart
    \/ GeocodePoll
    \/ GeocodeAddress
    \/ GeocodingComplete
    \/ ScanImages
    \/ SortPoll
    \/ ClassifyImage
    \/ SortingComplete
    \/ RequestCancel

Spec == Init /\ [][Next]_vars

\* ------------------- sort_photos over addresses that share a folder name
InitNames ==
    /\ addresses \in {<<AddrB, AddrC>>, <<AddrC, AddrB>>, <<AddrA, AddrC>>}
    /\ max_distance_km \in MaxDistances
    /\ copy_mode \in BOOLEAN
    /\ images_root = "dir"
    /\ output_inside = FALSE
    /\ geotags = "located"
    /\ srcFiles \in {S \cup OtherFiles :
                       S \in {T \in SUBSET ImageUniverse : Cardinality(T) \in 1..MaxImages}}
    /\ outputCreated = FALSE
    /\ outDirs = {}
    /\ outFiles = {}
    /\ fsOps = <<>>
    /\ InitRun
    /\ call = NoCall

SpecNames == InitNames /\ [][Next]_vars

\* ------------------------- sort_photos over images whose geotag is unreadable
InitUnreadable ==
    /\ addresses \in {<<AddrA>>, <<AddrA, AddrB>>}
    /\ max_distance_km \in MaxDistances
    /\ copy_mode \in BOOLEAN
    /\ images_root = "dir"
    /\ output_inside = FALSE
    /\ geotags = "unreadable"
    /\ srcFiles \in {S \cup OtherFiles :
                       S \in {T \in SUBSET ImageUniverse : Cardinality(T) \in 1..MaxImages}}
    /\ outputCreated = FALSE
    /\ outDirs = {}
    /\ outFiles = {}
    /\ fsOps = <<>>
    /\ InitRun
    /\ call = NoCall

SpecUnreadable == InitUnreadable /\ [][Next]_vars

\* ------------------------- sort_photos with any images_folder / output_folder
\* sort_photos takes the two paths as they come (394, 396): images_folder may be
\* missing or a plain file, in which case nothing lies under it, and
\* output_folder may lie under images_folder.
FolderAddresses == {<<>>, <<AddrA>>}

InitFolders ==
    /\ addresses \in FolderAddresses
    /\ max_distance_km \in MaxDistances
    /\ copy_mode \in BOOLEAN
    /\ images_root \in {"dir", "missing", "file"}
    /\ output_inside \in BOOLEAN
    /\ geotags = "any"
    /\ srcFiles \in IF images_root = "dir"
                    THEN {S \cup OtherFiles :
                            S \in {T \in SUBSET ImageUniverse : Cardinality(T) <= MaxImages}}
                    ELSE {{}}
    /\ outputCreated = FALSE
    /\ outDirs = {}
    /\ outFiles = {}
    /\ fsOps = <<>>
    /\ InitRun
    /\ call = NoCall

SpecFolders == InitFolders /\ [][Next]_vars

\* ------------------------------------- find_closest_location, called alone
MaxLocations == 3

MatchPoints == {GPSCoordinates(0, 0), GPSCoordinates(0, 1), GPSCoordinates(0, 3)}
MatchThresholds == {0, 1, 2}
\* Two resolved locations two apart, a third at the place of the second, and an
\* unresolved one.
MatchLocations ==
    { Location(<<"A">>, <<"A">>, GPSCoordinates(0, 0)),
      Location(<<"B">>, <<"B">>, GPSCoordinates(0, 2)),
      Location(<<"C">>, <<"C">>, GPSCoordinates(0, 2)),
      Location(<<"D">>, <<"D">>, None) }

IdleRun ==
    /\ addresses = <<>>
    /\ max_distance_km = 1
    /\ copy_mode = TRUE
    /\ images_root = "dir"
    /\ output_inside = FALSE
    /\ geotags = "any"
    /\ srcFiles = {}
    /\ outputCreated = FALSE
    /\ outDirs = {}
    /\ outFiles = {}
    /\ fsOps = <<>>
    /\ InitRun

InitMatch ==
    /\ IdleRun
    /\ \E coords \in MatchPoints, max \in MatchThresholds,
          locs \in UNION {[1..n -> MatchLocations] : n \in 0..MaxLocations} :
         call = [fn |-> "find_closest_location", done |-> FALSE, coords |-> coords,
                 locations |-> locs, max_distance_km |-> max, result |-> None]

CallFindClosestLocation ==
    /\ call.fn = "find_closest_location"
    /\ ~call.done
    /\ call' = [call EXCEPT !.done = TRUE,
                            !.result = find_closest_location(call.coords, call.locations,
                                                             call.max_distance_km)]
    /\ UNCHANGED <<inputVars, fsVars, runVars, guiVars, cancel_requested>>

NextMatch == CallFindClosestLocation

SpecMatch == InitMatch /\ [][NextMatch]_vars

\* ------------------------------------------------ find_images, called alone
MaxFiles == 4

NameR == <<"r", ".", "J", "p", "g">>
NameS == <<"s", ".", "t", "i", "f">>
\* Files with an extension in lower case, in upper case and in mixed case, a
\* name met in two subfolders, and a file that is no image.
FindUniverse ==
    {File(DirA, NameP), File(DirB, NameP), File(DirA, NameQ), File(DirA, NameR),
     File(DirB, NameS), File(DirA, NameNotes)}

InitFind ==
    /\ IdleRun
    /\ \E files \in {T \in SUBSET FindUniverse : Cardinality(T) <= MaxFiles} :
         call = [fn |-> "find_images", done |-> FALSE, files |-> files, result |-> <<>>]

\* The returned list is list(set(images)) (330): the set, in some order.
CallFindImages ==
    /\ call.fn = "find_images"
    /\ ~call.done
    /\ \E found \in Orderings(find_images(call.files)) :
         call' = [call EXCEPT !.done = TRUE, !.result = found]
    /\ UNCHANGED <<inputVars, fsVars, runVars, guiVars, cancel_requested>>

NextFind == CallFindImages

SpecFind == InitFind /\ [][NextFind]_vars

\* ------------------------- sanitize_folder_name, called alone and by a run
\* The names: a long run of one letter between two ends, so that the cut at
\* MaxNameLen falls before, in or after the closing end.
PadLengths == {0, MaxNameLen - 2, MaxNameLen - 1, MaxNameLen, MaxNameLen + 1}
Pad(n) == [k \in 1..n |-> "x"]
NameEnds == {<<>>, <<" ">>, <<"?">>, <<" ", "a">>, <<"a", " ">>, <<"\\", "\t">>}
SanitizeInputs == {head \o Pad(n) \o tail : head \in NameEnds, n \in PadLengths, tail \in NameEnds}

\* One call of the function on any of the names, next to one run of sort_photos
\* that names its Location by it (442).
InitSanitize ==
    /\ addresses = <<AddrB>>
    /\ max_distance_km \in MaxDistances
    /\ copy_mode = FALSE
    /\ images_root = "dir"
    /\ output_inside = FALSE
    /\ geotags = "any"
    /\ srcFiles = {File(DirA, NameP)} \cup OtherFiles
    /\ outputCreated = FALSE
    /\ outDirs = {}
    /\ outFiles = {}
    /\ fsOps = <<>>
    /\ InitRun
    /\ \E name \in SanitizeInputs :
         call = [fn |-> "sanitize_folder_name", done |-> FALSE, name |-> name, result |-> <<>>]

CallSanitizeFolderName ==
    /\ call.fn = "sanitize_folder_name"
    /\ ~call.done
    /\ call' = [call EXCEPT !.done = TRUE, !.result = sanitize_folder_name(call.name)]
    /\ UNCHANGED <<inputVars, fsVars, runVars, guiVars, cancel_requested>>

NextSanitize ==
    \/ CallSanitizeFolderName
    \/ Next

SpecSanitize == InitSanitize /\ [][NextSanitize]_vars

\* --------------------------------------------- dms_to_decimal, called alone
\* What may stand in each place of the triple: a Python int, a rational, a
\* float, something that is no number, a rational with denominator 0. The
\* values are whole numbers of arc-seconds: 1/2 degree, 3/2 minute, 4/2 second.
DegreesElems == {IntElem(10), RatElem(1, 2), FloatElem(1), StrElem, RatElem(1, 0)}
MinutesElems == {IntElem(30), RatElem(3, 2), FloatElem(2), StrElem, RatElem(1, 0)}
SecondsElems == {IntElem(0), RatElem(4, 2), FloatElem(3), RatElem(1, 0)}
\* The triples, and the tuples that are too short.
DmsTuples ==
    {<<>>} \cup {<<d>> : d \in DegreesElems}
           \cup {<<d, m>> : d \in DegreesElems, m \in MinutesElems}
           \cup {<<d, m, sec>> : d \in DegreesElems, m \in MinutesElems, sec \in SecondsElems}
Refs == {"N", "S", "E", "W"}

InitDms ==
    /\ IdleRun
    /\ \E dms \in DmsTuples, ref \in Refs :
         call = [fn |-> "dms_to_decimal", done |-> FALSE, dms |-> dms, ref |-> ref,
                 result |-> Raised("none")]

CallDmsToDecimal ==
    /\ call.fn = "dms_to_decimal"
    /\ ~call.done
    /\ call' = [call EXCEPT !.done = TRUE, !.result = dms_to_decimal(call.dms, call.ref)]
    /\ UNCHANGED <<inputVars, fsVars, runVars, guiVars, cancel_requested>>

NextDms == CallDmsToDecimal

SpecDms == InitDms /\ [][NextDms]_vars

\* ------------------------------------------------ PhotoSorterGUI (gui.py)
\* GUIProgressCallback (gui.py 20-57) puts every notification on message_queue,
\* so `events` is what the worker has put there, and the queue holds the part of
\* it the foreground has not taken yet.
MaxRuns == 2

message_queue == SubSeq(events, handled + 1, Len(events))

\* Mutant: the newest message is taken.
GetNewest(q) == q[Len(q)]

\* queue.Queue.get_nowait(): the oldest message.
get_nowait(q) == Head(q)

\* Mutant: Start stays enabled.
ButtonsWhenStartedBothNormal == [start |-> "normal", cancel |-> "normal"]

\* start_button.config(state="disabled"), cancel_button.config(state="normal")
\* (gui.py 284-285)
ButtonsWhenStarted == [start |-> "disabled", cancel |-> "normal"]

InitGui ==
    /\ addresses = <<AddrA>>
    /\ max_distance_km \in MaxDistances
    /\ copy_mode \in BOOLEAN
    /\ images_root \in {"dir", "missing"}
    /\ output_inside = FALSE
    /\ geotags = "few"
    /\ srcFiles = IF images_root = "dir" THEN {File(DirA, NameP)} \cup OtherFiles ELSE {}
    /\ outputCreated = FALSE
    /\ outDirs = {}
    /\ outFiles = {}
    /\ fsOps = <<>>
    /\ pc = "idle"
    /\ exitPath = "running"
    /\ i = 0
    /\ locations = <<>>
    /\ images = <<>>
    /\ stats = EmptyStats
    /\ retval = None
    /\ events = <<>>
    /\ processed = <<>>
    /\ cancelSeen = FALSE
    /\ polls = <<>>
    /\ cancel_requested = FALSE
    /\ IdleGui
    /\ call = NoCall

\* _start_sorting (gui.py 247-308), the command of the Start button: the
\* validation, the UI state, and the launch of the worker thread, whose
\* sort_photos starts from its first line.
StartClick ==
    /\ fg = "idle"
    /\ start_button = "normal"
    /\ runs < MaxRuns
    /\ images_root = "dir"
    /\ addresses # <<>>
    /\ is_running' = TRUE
    /\ cancel_requested' = FALSE
    /\ start_button' = ButtonsWhenStarted.start
    /\ cancel_button' = ButtonsWhenStarted.cancel
    /\ workers' = workers + 1
    /\ runs' = runs + 1
    /\ pc' = "start"
    /\ exitPath' = "running"
    /\ i' = 0
    /\ locations' = <<>>
    /\ images' = <<>>
    /\ stats' = EmptyStats
    /\ retval' = None
    /\ events' = message_queue
    /\ handled' = 0
    /\ seen' = <<>>
    /\ processed' = <<>>
    /\ cancelSeen' = FALSE
    /\ polls' = <<>>
    /\ fsOps' = <<>>
    /\ UNCHANGED <<call, inputVars, srcFiles, outputCreated, outDirs, outFiles, status_var, fg>>

\* _worker's try block (gui.py 320-330): one step of sort_photos.
WorkerStep ==
    \/ GeocodingStart
    \/ GeocodePoll
    \/ GeocodeAddress
    \/ GeocodingComplete
    \/ ScanImages
    \/ SortPoll
    \/ ClassifyImage
    \/ SortingComplete

\* `except Exception as e: callback.on_log(f"ERROR: {e}")` (gui.py 331-332)
WorkerExcept ==
    /\ pc = "raised"
    /\ pc' = "caught"
    /\ Deliver(<<[type |-> "log", message |-> "ERROR"]>>)
    /\ UNCHANGED <<call, guiVars, inputVars, fsVars, cancel_requested, exitPath, i, locations,
                   images, stats, retval, processed, cancelSeen, polls>>

\* `finally: self.message_queue.put(("finished",))` (gui.py 333-334), and the
\* end of the thread.
WorkerFinally ==
    /\ pc \in {"returned", "caught"}
    /\ pc' = "done"
    /\ Deliver(<<Event("finished")>>)
    /\ workers' = workers - 1
    /\ UNCHANGED <<call, inputVars, fsVars, cancel_requested, exitPath, i, locations, images,
                   stats, retval, processed, cancelSeen, polls, is_running, start_button,
                   cancel_button, status_var, handled, seen, fg, runs>>

\* _cancel_sorting (gui.py 336-340), the command of the Cancel button.
CancelClick ==
    /\ fg = "idle"
    /\ cancel_button = "normal"
    /\ cancel_requested' = TRUE
    /\ status_var' = "Cancelling..."
    /\ UNCHANGED <<call, inputVars, fsVars, runVars, is_running, start_button, cancel_button,
                   handled, seen, fg, workers, runs>>

\* What _handle_message leaves in the status line (gui.py 362-421).
StatusAfter(msg, status, cancelled) ==
    IF msg.type \in {"geocoding_start", "geocoding_progress"} THEN "Geocoding addresses"
    ELSE IF msg.type = "scanning_start" THEN "Scanning for images..."
    ELSE IF msg.type \in {"sorting_start", "sorting_progress"} THEN "Sorting images"
    ELSE IF msg.type = "finished" THEN (IF cancelled THEN "Cancelled" ELSE "Complete")
    ELSE status

\* One turn of the loop of _process_queue (gui.py 348-351): get_nowait and
\* _handle_message (358-421). 'sorting_complete' ends in _show_results' modal
\* messagebox.showinfo (439-442).
HandleMessage ==
    /\ fg \in {"idle", "draining"}
    /\ message_queue # <<>>
    /\ LET msg == get_nowait(message_queue) IN
        /\ handled' = handled + 1
        /\ seen' = Append(seen, msg.type)
        /\ status_var' = StatusAfter(msg, status_var, cancel_requested)
        /\ fg' = IF msg.type = "sorting_complete" THEN "dialog" ELSE "draining"
        /\ IF msg.type = "finished"
           THEN /\ is_running' = FALSE
                /\ start_button' = "normal"
                /\ cancel_button' = "disabled"
           ELSE UNCHANGED <<is_running, start_button, cancel_button>>
    /\ UNCHANGED <<call, inputVars, fsVars, runVars, cancel_requested, workers, runs>>

\* The user closes the message box; _handle_message returns into the loop.
DismissDialog ==
    /\ fg = "dialog"
    /\ fg' = "draining"
    /\ UNCHANGED <<call, inputVars, fsVars, runVars, cancel_requested, is_running, start_button,
                   cancel_button, status_var, handled, seen, workers, runs>>

\* `except queue.Empty: pass` and root.after(100, self._process_queue)
\* (gui.py 352-356).
QueueEmpty ==
    /\ fg = "draining"
    /\ message_queue = <<>>
    /\ fg' = "idle"
    /\ UNCHANGED <<call, inputVars, fsVars, runVars, cancel_requested, is_running, start_button,
                   cancel_button, status_var, handled, seen, workers, runs>>

NextGui ==
    \/ StartClick
    \/ WorkerStep
    \/ WorkerExcept
    \/ WorkerFinally
    \/ CancelClick
    \/ HandleMessage
    \/ DismissDialog
    \/ QueueEmpty

SpecGui == InitGui /\ [][NextGui]_vars

\* The worker thread runs on, the timer of _process_queue fires every 100 ms, and
\* the user closes the message box.
SpecGuiLive ==
    /\ InitGui
    /\ [][NextGui]_vars
    /\ WF_vars(WorkerStep)
    /\ WF_vars(WorkerExcept)
    /\ WF_vars(WorkerFinally)
    /\ WF_vars(HandleMessage)
    /\ WF_vars(DismissDialog)
    /\ WF_vars(QueueEmpty)

\* ================================================================ claims
CounterSum(st) == st.sorted_images + st.no_gps_images + st.no_match_images

Outcomes == {"matched", "no_gps", "no_match"}
WithOutcome(o) == {k \in 1..Len(processed) : processed[k].outcome = o}
EventsOf(type) == {k \in 1..Len(events) : events[k].type = type}
Delivered(type) == EventsOf(type) # {}
CopiesAndMoves == {k \in 1..Len(fsOps) : fsOps[k].op \in {"copy", "move"}}
\* N: the images classified so far, as the sink saw them.
Classified == Cardinality(EventsOf("sorting_progress"))

\* C1: when sort_photos has returned without having seen a cancellation, the
\* returned counters add up to total_images; after the sorting loop every
\* discovered image has exactly one outcome record and each counter is the
\* number of images with that outcome.
C1_CompleteRunCountsEveryImage ==
    (pc = "returned" /\ ~cancelSeen) =>
        /\ CounterSum(retval) = retval.total_images
        /\ exitPath = "complete" =>
             /\ retval.total_images = Len(images)
             /\ Len(processed) = Len(images)
             /\ \A k \in 1..Len(images) :
                  processed[k].image = images[k] /\ processed[k].outcome \in Outcomes
             /\ retval.sorted_images = Cardinality(WithOutcome("matched"))
             /\ retval.no_gps_images = Cardinality(WithOutcome("no_gps"))
             /\ retval.no_match_images = Cardinality(WithOutcome("no_match"))

C1_Witness ==
    /\ pc = "returned" /\ exitPath = "complete" /\ ~cancelSeen
    /\ retval.total_images = 2
    /\ retval.no_gps_images = 1
    /\ retval.sorted_images + retval.no_match_images = 1

\* C2: placement never overwrites: every image that was copied or moved is still
\* the content of the file it was placed as.
C2_NeverOverwrites ==
    \A k \in 1..Len(processed) :
        processed[k].placed =>
            [folder |-> processed[k].folder, name |-> processed[k].dest,
             content |-> processed[k].image] \in outFiles

\* C3: from the poll that sees the cancellation on, no step changes the file
\* system, delivers a notification or changes the statistics, and sort_photos has
\* returned the statistics as they were at that poll.
C3_NothingAfterCancelObserved ==
    [][cancelSeen' => /\ UNCHANGED <<fsVars, events, stats>>
                      /\ pc' = "returned"
                      /\ retval' = stats]_vars

C3_Witness ==
    /\ cancelSeen /\ pc = "returned"
    /\ Len(processed) = 1 /\ Len(images) = 2
    /\ outFiles # {}

\* C4: when the cancellation is seen after N images were classified, the three
\* counters of the returned statistics add up to N and N copies or moves were made.
C4_CancelledCountsProcessed ==
    cancelSeen =>
        /\ CounterSum(retval) = Classified
        /\ Cardinality(CopiesAndMoves) = Classified
        /\ Len(processed) = Classified
        /\ \A k \in 1..Len(processed) : processed[k].placed

C4_Witness ==
    /\ cancelSeen /\ Classified = 1 /\ Len(images) = 2
    /\ CounterSum(retval) = 1

\* C5 as stated: after a cancellation total_images, too, is the number N of
\* images processed.
C5_TotalIsProcessed ==
    (cancelSeen /\ pc = "returned") => retval.total_images = Len(processed)

\* C5 amended: after a cancellation each outcome counter and each per-location
\* count is the number of processed images with that outcome, and total_images is
\* the number of images discovered.
C5_CountersReflectProcessed ==
    (cancelSeen /\ pc = "returned") =>
        /\ retval.sorted_images = Cardinality(WithOutcome("matched"))
        /\ retval.no_gps_images = Cardinality(WithOutcome("no_gps"))
        /\ retval.no_match_images = Cardinality(WithOutcome("no_match"))
        /\ DOMAIN retval.locations = {processed[k].folder : k \in WithOutcome("matched")}
        /\ \A n \in DOMAIN retval.locations :
             retval.locations[n] =
                Cardinality({k \in WithOutcome("matched") : processed[k].folder = n})
        /\ retval.total_images = Len(images)

C5_Witness ==
    /\ cancelSeen /\ pc = "returned"
    /\ Len(processed) = 1 /\ Len(images) = 2
    /\ retval.total_images = 2
    /\ retval.sorted_images = 1

\* C6: the notifications come in the order of the phases. Log messages aside, a
\* later notification never belongs to an earlier step than one before it; only
\* the two progress steps repeat; every `complete` has its `start` before it;
\* geocoding_complete follows one progress step per address and sorting_complete
\* one per image, numbered 1, 2, ...
Rank(type) ==
    CASE type = "geocoding_start" -> 1 [] type = "geocoding_progress" -> 2
      [] type = "geocoding_complete" -> 3 [] type = "scanning_start" -> 4
      [] type = "scanning_complete" -> 5 [] type = "sorting_start" -> 6
      [] type = "sorting_progress" -> 7 [] type = "sorting_complete" -> 8

Notifications == SelectSeq(events, LAMBDA e : e.type # "log")

Numbered(type) ==
    LET steps == SelectSeq(events, LAMBDA e : e.type = type)
    IN  \A k \in 1..Len(steps) : steps[k].current = k

C6_NotificationsInPhaseOrder ==
    LET n == Notifications IN
    /\ \A a, b \in 1..Len(n) :
         a < b => \/ Rank(n[a].type) < Rank(n[b].type)
                  \/ /\ n[a].type = n[b].type
                     /\ n[a].type \in {"geocoding_progress", "sorting_progress"}
    /\ \A type \in {"geocoding_progress", "geocoding_complete", "scanning_start"} :
         Delivered(type) => Delivered("geocoding_start")
    /\ Delivered("scanning_complete") => Delivered("scanning_start")
    /\ \A type \in {"sorting_progress", "sorting_complete"} :
         Delivered(type) => Delivered("sorting_start") /\ Delivered("scanning_complete")
    /\ Numbered("geocoding_progress") /\ Numbered("sorting_progress")
    /\ Delivered("geocoding_complete") =>
         Cardinality(EventsOf("geocoding_progress")) = Len(addresses)
    /\ Delivered("sorting_complete") =>
         Cardinality(EventsOf("sorting_progress")) = Len(images)

C6_Witness ==
    /\ Delivered("sorting_complete")
    /\ Cardinality(EventsOf("geocoding_progress")) = 2
    /\ Cardinality(EventsOf("sorting_progress")) = 2

\* C7 as stated: whether the run completed or was cancelled, sort_photos returns
\* the statistics and the sink receives them in on_sorting_complete.
C7_StatisticsReachTheSink ==
    (pc = "returned" /\ exitPath \in {"complete", "cancelled"}) =>
        /\ retval = stats
        /\ \E k \in EventsOf("sorting_complete") : events[k].stats = retval

\* C7 amended: sort_photos returns the statistics on every exit without an
\* exception; on_sorting_complete is delivered, as the last notification and with
\* the returned statistics, exactly when the sorting loop ran to its end, so never
\* on a run that saw a cancellation.
C7_ReturnedAlwaysSinkOnlyWhenComplete ==
    /\ pc = "returned" =>
         /\ retval = stats
         /\ Delivered("sorting_complete") <=> exitPath = "complete"
    /\ pc # "returned" => retval = None /\ ~Delivered("sorting_complete")
    /\ cancelSeen => ~Delivered("sorting_complete")
    /\ \A k \in EventsOf("sorting_complete") : k = Len(events) /\ events[k].stats = retval

C7_Witness ==
    /\ pc = "returned" /\ exitPath = "cancelled"
    /\ Len(processed) = 1
    /\ retval = stats /\ CounterSum(retval) = 1
    /\ ~Delivered("sorting_complete")

\* C8: when the geocoding loop has ended and no address has a coordinate,
\* sort_photos has returned statistics that are all zero, no image was discovered
\* and the file system is as it was: no folder, no copy, no move.
GeocodingOver == pc \notin {"start", "geo_poll", "geo_body"} /\ Len(locations) = Len(addresses)

C8_NoLocationShortCircuits ==
    (GeocodingOver /\ \A k \in 1..Len(locations) : locations[k].coordinates = None) =>
        /\ pc = "returned"
        /\ retval.sorted_images = 0 /\ retval.no_match_images = 0
        /\ retval.no_gps_images = 0 /\ retval.total_images = 0
        /\ ~Delivered("scanning_start") /\ ~Delivered("sorting_start")
        /\ images = <<>> /\ processed = <<>>
        /\ fsOps = <<>> /\ ~outputCreated /\ outDirs = {} /\ outFiles = {}

C8_Witness ==
    /\ pc = "returned" /\ ~cancelSeen
    /\ Len(locations) = 2
    /\ \A k \in 1..Len(locations) : locations[k].coordinates = None
    /\ Cardinality(find_images(srcFiles)) = 2

\* C9: an image whose geotag holds no coordinate is a no-GPS image: the matcher
\* is not called for it, it goes to _no_gps_data and is counted in no_gps_images,
\* never in no_match_images; only a failed copy or move stops the run.
C9_UndecodableIsNoGps ==
    /\ \A k \in 1..Len(processed) :
         ~processed[k].decodable =>
            /\ processed[k].outcome = "no_gps"
            /\ processed[k].folder = NoGpsFolder
            /\ ~processed[k].matcher
            /\ processed[k].closest = None
    /\ stats.no_gps_images >= Cardinality({k \in 1..Len(processed) : ~processed[k].decodable})
    /\ stats.no_match_images <= Cardinality({k \in 1..Len(processed) : processed[k].decodable})
    /\ pc = "raised" => ~processed[Len(processed)].placed

C9_Witness ==
    /\ Len(processed) = 2
    /\ ~processed[1].decodable /\ processed[1].placed
    /\ processed[1].outcome = "no_gps"
    /\ stats.no_gps_images = 1

\* C10: find_closest_location returns a location only if it has a coordinate, no
\* location with a coordinate is nearer to the photo and its distance is at most
\* max_distance_km; it returns None exactly when no location has a coordinate or
\* the nearest one is farther than max_distance_km.
Candidates == {k \in 1..Len(call.locations) : call.locations[k].coordinates # None}
DistanceTo(k) == geodesic(call.coords, call.locations[k].coordinates)

C10_NearestWithinThreshold ==
    (call.fn = "find_closest_location" /\ call.done) =>
        /\ call.result # None =>
             \E k \in Candidates :
                /\ call.locations[k] = call.result
                /\ DistanceTo(k) <= call.max_distance_km
                /\ \A j \in Candidates : DistanceTo(k) <= DistanceTo(j)
        /\ call.result = None <=>
             \A k \in Candidates : DistanceTo(k) > call.max_distance_km

C10_Witness ==
    /\ call.fn = "find_closest_location" /\ call.done
    /\ call.result # None
    /\ Cardinality(Candidates) = 2 /\ Len(call.locations) = 3
    /\ \E k \in Candidates : call.locations[k] = call.result
                             /\ DistanceTo(k) = call.max_distance_km
    /\ \E j \in Candidates : DistanceTo(j) > call.max_distance_km

\* C11: when several locations with a coordinate are at the minimum distance
\* from the photo, find_closest_location returns the one that comes first in the
\* list it was given; the result is a function of the arguments alone.
FirstNearest ==
    CHOOSE k \in Candidates :
        \A j \in Candidates : \/ DistanceTo(k) < DistanceTo(j)
                               \/ (DistanceTo(k) = DistanceTo(j) /\ k <= j)

C11_FirstOfEquidistantWins ==
    (call.fn = "find_closest_location" /\ call.done) =>
        /\ call.result # None => call.result = call.locations[FirstNearest]
        /\ call.result = find_closest_location(call.coords, call.locations,
                                                call.max_distance_km)

C11_Witness ==
    /\ call.fn = "find_closest_location" /\ call.done
    /\ call.result # None
    /\ \E j, k \in Candidates :
         /\ j < k
         /\ call.locations[j] # call.locations[k]
         /\ DistanceTo(j) = DistanceTo(k)
         /\ \A m \in Candidates : DistanceTo(j) <= DistanceTo(m)
         /\ call.result = call.locations[j]

\* C12: a subfolder of the output folder exists only if an image was assigned to
\* it: every mkdir of a subfolder is the one made for the image being placed, in
\* that image's folder, and as long as every image classified so far matched a
\* location neither _no_gps_data nor _unknown_location exists.
AssignedFolders == {processed[k].folder : k \in 1..Len(processed)}
SubfolderMkdirs == SelectSeq(fsOps, LAMBDA o : o.op = "mkdir" /\ o.folder # <<>>)

C12_FoldersCreatedOnFirstUse ==
    /\ outDirs = AssignedFolders
    /\ Len(SubfolderMkdirs) = Len(processed)
    /\ \A k \in 1..Len(processed) : SubfolderMkdirs[k].folder = processed[k].folder
    /\ (\A k \in 1..Len(processed) : processed[k].outcome = "matched") =>
         NoGpsFolder \notin outDirs /\ UnknownFolder \notin outDirs

C12_Witness ==
    /\ pc = "returned" /\ exitPath = "complete"
    /\ Len(processed) = 2
    /\ \A k \in 1..Len(processed) : processed[k].outcome = "matched"
    /\ outDirs # {}
    /\ NoGpsFolder \notin outDirs /\ UnknownFolder \notin outDirs

\* C13: after a move-mode run that ran to its end, a walk of the images folder
\* finds no image.
C13_MoveModeLeavesNoImage ==
    (pc = "returned" /\ exitPath = "complete" /\ ~copy_mode) =>
        find_images(FilesUnderRoot) = {}

\* C14: in copy mode every discovered image is still at its original path, and
\* after the run a walk of the images folder finds the images it found before
\* the run, no more and no fewer.
C14_CopyModeRetainsSource ==
    copy_mode =>
        /\ \A k \in 1..Len(images) : images[k] \in srcFiles
        /\ (pc \in {"returned", "raised"} /\ Delivered("scanning_complete")) =>
             find_images(FilesUnderRoot) = {images[k] : k \in 1..Len(images)}

\* C16: when images_folder is no directory or the address list is empty,
\* sort_photos does not return normally and does nothing on the way: it resolves
\* no address, walks no folder, notifies no progress and leaves the file system
\* alone.
InvalidInput == images_root # "dir" \/ addresses = <<>>

C16_InvalidInputRejected ==
    InvalidInput =>
        /\ pc # "returned"
        /\ locations = <<>>
        /\ ~Delivered("geocoding_progress")
        /\ ~Delivered("scanning_start")
        /\ fsOps = <<>> /\ ~outputCreated

\* C15: whatever the geocoder does for an address (answer, nothing found,
\* timeout, service error), the geocoding loop records one Location and delivers
\* one progress step for it, in the order of the address list, and goes on to the
\* next address; sort_photos never ends by an exception before the sorting
\* phase; and the location an image is matched to always has a coordinate.
C15_UnresolvedAddressIsSkippedNotFatal ==
    /\ Len(locations) = Cardinality(EventsOf("geocoding_progress"))
    /\ pc \in {"geo_poll", "geo_body"} => Len(locations) = i
    /\ Delivered("geocoding_complete") => Len(locations) = Len(addresses)
    /\ \A k \in 1..Len(locations) :
         /\ locations[k].address = addresses[k]
         /\ \E e \in EventsOf("geocoding_progress") :
              /\ events[e].current = k
              /\ events[e].address = addresses[k]
              /\ events[e].success = (locations[k].coordinates # None)
    /\ pc = "raised" => Delivered("sorting_start")
    /\ \A k \in 1..Len(processed) :
         processed[k].closest # None =>
            /\ processed[k].closest.coordinates # None
            /\ \E j \in 1..Len(locations) : locations[j] = processed[k].closest

C15_Witness ==
    /\ Len(locations) = 2
    /\ locations[1].coordinates = None
    /\ locations[2].coordinates # None
    /\ \E k \in 1..Len(processed) : processed[k].closest = locations[2]

\* C17: a copy or move that fails ends sort_photos by the exception: nothing is
\* returned, no progress step is delivered for that image and no later image is
\* touched. In every state, also after such a failure, every image classified
\* has counted in at most one counter and at most once: no_gps_images and
\* no_match_images are the numbers of images with these outcomes, sorted_images
\* the number of matched images that were placed.
PlacedWithOutcome(o) == {k \in WithOutcome(o) : processed[k].placed}

C17_FailureEscapesCountersAtMostOnce ==
    /\ Len(processed) <= Len(images)
    /\ \A k \in 1..Len(processed) : processed[k].image = images[k]
    /\ \A j, k \in 1..Len(images) : j # k => images[j] # images[k]
    /\ stats.no_gps_images = Cardinality(WithOutcome("no_gps"))
    /\ stats.no_match_images = Cardinality(WithOutcome("no_match"))
    /\ stats.sorted_images = Cardinality(PlacedWithOutcome("matched"))
    /\ CounterSum(stats) <= Len(processed)
    /\ \A k \in 1..Len(processed) :
         ~processed[k].placed =>
            /\ k = Len(processed)
            /\ pc = "raised" /\ exitPath = "raised"
            /\ retval = None
            /\ \A e \in EventsOf("sorting_progress") : events[e].current # k
            /\ ~Delivered("sorting_complete")
    /\ pc = "raised" => ~processed[Len(processed)].placed

C17_Witness ==
    /\ pc = "raised"
    /\ Len(processed) = 2
    /\ processed[1].placed /\ processed[1].outcome = "matched"
    /\ processed[2].outcome = "no_gps" /\ ~processed[2].placed
    /\ stats.sorted_images = 1 /\ stats.no_gps_images = 1

\* C18: is_cancelled() is called once at the head of each iteration of the two
\* loops and nowhere else: the calls of the geocoding loop come first, both
\* series are numbered 1, 2, ..., and there is one call per Location recorded and
\* one per image classified, plus the one whose iteration is under way or which
\* ended the run. A step of the run that starts in the body of an iteration
\* makes no call and completes the iteration, whether or not cancellation has
\* been requested meanwhile: the address gets its Location and its progress
\* step, the image its record, its counter and its progress step (or the copy or
\* move fails).
GeoPolls == SelectSeq(polls, LAMBDA q : q.phase = "geocoding")
SortPolls == SelectSeq(polls, LAMBDA q : q.phase = "sorting")
CancelledWhile(phase) ==
    /\ pc = "returned" /\ exitPath = "cancelled"
    /\ (phase = "sorting") <=> Delivered("sorting_start")

PollsMatchIterations ==
    /\ polls = GeoPolls \o SortPolls
    /\ \A k \in 1..Len(GeoPolls) : GeoPolls[k].index = k
    /\ \A k \in 1..Len(SortPolls) : SortPolls[k].index = k
    /\ Len(GeoPolls) = Len(locations)
                        + (IF pc = "geo_body" \/ CancelledWhile("geocoding") THEN 1 ELSE 0)
    /\ Len(SortPolls) = Len(processed)
                         + (IF pc = "sort_body" \/ CancelledWhile("sorting") THEN 1 ELSE 0)

IterationRunsToItsEnd ==
    /\ polls' # polls => pc \in {"geo_poll", "sort_poll"} /\ Len(polls') = Len(polls) + 1
    /\ (pc = "geo_body" /\ cancel_requested' = cancel_requested) =>
         /\ pc' = "geo_poll"
         /\ Len(locations') = Len(locations) + 1
         /\ Len(events') = Len(events) + 1
         /\ events'[Len(events')].type = "geocoding_progress"
    /\ (pc = "sort_body" /\ cancel_requested' = cancel_requested) =>
         /\ Len(processed') = Len(processed) + 1
         /\ \/ pc' = "raised"
            \/ /\ pc' = "sort_poll"
               /\ CounterSum(stats') = CounterSum(stats) + 1
               /\ Len(events') = Len(events) + 1
               /\ events'[Len(events')].type = "sorting_progress"

C18_PolledOncePerIteration == []PollsMatchIterations /\ [][IterationRunsToItsEnd]_vars

C18_Witness ==
    /\ pc = "sort_body"
    /\ cancel_requested /\ ~cancelSeen
    /\ Len(GeoPolls) = 2 /\ Len(SortPolls) = 2
    /\ Len(processed) = 1

\* C19: find_images returns, each once, exactly the files whose extension is one
\* of the seven when letter case is ignored, whatever the mix of cases.
LowerChar(c) ==
    CASE c = "J" -> "j" [] c = "P" -> "p" [] c = "G" -> "g" [] c = "E" -> "e"
      [] c = "N" -> "n" [] c = "T" -> "t" [] c = "I" -> "i" [] c = "F" -> "f"
      [] c = "H" -> "h" [] c = "C" -> "c" [] OTHER -> c

Lower(s) == [k \in 1..Len(s) |-> LowerChar(s[k])]

C19_EveryCaseVariantFound ==
    (call.fn = "find_images" /\ call.done) =>
        /\ {call.result[k] : k \in 1..Len(call.result)}
              = {f \in call.files : Lower(PathSuffix(f.name)) \in IMAGE_EXTENSIONS}
        /\ \A j, k \in 1..Len(call.result) : j # k => call.result[j] # call.result[k]

\* C20: the result of sanitize_folder_name is the name with each of the nine
\* characters replaced by _, cut to its first MaxNameLen characters, without the
\* whitespace at its two ends: it holds none of the nine characters, is at most
\* MaxNameLen long, neither starts nor ends with whitespace, and sanitizing it
\* again changes nothing. Every Location of a run, resolved or not, is named by
\* the sanitized address.
Replaced(name, k) == IF name[k] \in InvalidChars THEN "_" ELSE name[k]

C20_SanitizedNameIsSafeAndStable ==
    /\ (call.fn = "sanitize_folder_name" /\ call.done) =>
         LET name == call.name
             result == call.result
             cut == IF Len(name) < MaxNameLen THEN Len(name) ELSE MaxNameLen
             solid == {k \in 1..cut : Replaced(name, k) \notin Whitespace}
             first == CHOOSE k \in solid : \A j \in solid : k <= j
             last == CHOOSE k \in solid : \A j \in solid : k >= j
         IN  /\ \A k \in 1..Len(result) : result[k] \notin InvalidChars
             /\ Len(result) <= MaxNameLen
             /\ result # <<>> => result[1] \notin Whitespace
                                  /\ result[Len(result)] \notin Whitespace
             /\ sanitize_folder_name(result) = result
             /\ solid = {} => result = <<>>
             /\ solid # {} => /\ Len(result) = last - first + 1
                               /\ \A k \in 1..Len(result) :
                                    result[k] = Replaced(name, first + k - 1)
    /\ \A k \in 1..Len(locations) :
         locations[k].name = sanitize_folder_name(locations[k].address)

C20_Witness ==
    /\ call.fn = "sanitize_folder_name" /\ call.done
    /\ Len(call.name) > MaxNameLen
    /\ \E k \in 1..Len(call.name) : call.name[k] \in InvalidChars
    /\ Len(call.result) < MaxNameLen
    /\ Len(locations) = 1
    /\ locations[1].coordinates = None
    /\ locations[1].name # locations[1].address

\* C21: dms_to_decimal takes every triple of three numbers without a zero
\* denominator, each element in either form, and fails on every other tuple;
\* when it fails, the exception is ValueError.
C21_FailsOnlyWithValueError ==
    (call.fn = "dms_to_decimal" /\ call.done) =>
        /\ call.result.exc \in {"none", "ValueError"}
        /\ WellFormed(call.dms) => call.result.exc = "none"
        /\ ~WellFormed(call.dms) => call.result.exc = "ValueError"

\* C22: for a triple of three non-negative numbers that dms_to_decimal reads
\* (no zero denominator; all three with a numerator when the first has one), the
\* result is degrees + minutes/60 + seconds/3600, counted here in arc-seconds:
\* that sum and so not negative for N and E, its negation and so not positive for
\* S and W. (10, 30, 0) with N gives 10.5 degrees, 37800 arc-seconds.
Readable(dms) ==
    /\ WellFormed(dms)
    /\ HasNumerator(dms[1]) => \A k \in 1..3 : HasNumerator(dms[k])

TenThirty == <<IntElem(10), IntElem(30), IntElem(0)>>

C24_MoveModeLosesNoImage ==
    (~copy_mode /\ pc = "returned" /\ Delivered("scanning_complete")) =>
        Cardinality(find_images(srcFiles)) + Cardinality(outFiles) = Len(images)

\* C26: the on_sorting_progress notifications are as many as the images copied or
\* moved and as the copies and moves made; the k-th carries current = k, the name
\* of the k-th image and its destination; none exceeds the total of
\* on_sorting_start, which is the count of on_scanning_complete, the number of
\* images found and stats.total_images.
ProgressSteps == SelectSeq(events, LAMBDA e : e.type = "sorting_progress")
PlacedRecords == SelectSeq(processed, LAMBDA r : r.placed)
TheEvent(type) == events[CHOOSE k \in EventsOf(type) : TRUE]

C26_OneProgressPerProcessedImage ==
    LET steps == ProgressSteps IN
    /\ Len(steps) = Len(PlacedRecords)
    /\ Len(steps) = Cardinality(CopiesAndMoves)
    /\ \A k \in 1..Len(steps) :
         /\ steps[k].current = k
         /\ processed[k].placed
         /\ steps[k].filename = images[k].name
         /\ steps[k].destination = processed[k].folder
    /\ steps # <<>> => Delivered("sorting_start")
    /\ Delivered("sorting_start") =>
         /\ Cardinality(EventsOf("sorting_start")) = 1
         /\ TheEvent("sorting_start").total = TheEvent("scanning_complete").count
         /\ TheEvent("sorting_start").total = stats.total_images
         /\ TheEvent("sorting_start").total = Len(images)
         /\ \A k \in 1..Len(steps) : steps[k].current <= TheEvent("sorting_start").total

C26_Witness ==
    /\ Len(ProgressSteps) = 2
    /\ ProgressSteps[2].current = 2
    /\ TheEvent("sorting_start").total = 2
    /\ Cardinality(CopiesAndMoves) = 2

\* C23: every address that did not resolve has its on_geocoding_progress step
\* with success = false in the sink, and every image whose geotag could not be
\* read has an on_log warning there, delivered before the next image is taken up.
\* (Checked over runs in which a geotag that gives no coordinate is one that
\* could not be read.)
LogsAfterScan ==
    {k \in EventsOf("log") : \E s \in EventsOf("sorting_start") : s < k}

C23_FailuresWarnThroughSink ==
    /\ \A k \in 1..Len(locations) :
         locations[k].coordinates = None =>
            \E e \in EventsOf("geocoding_progress") :
                events[e].current = k /\ ~events[e].success
    /\ Cardinality(LogsAfterScan)
         >= Cardinality({k \in 1..Len(processed) :
                           processed[k].placed /\ ~processed[k].decodable})

\* C25: at every point of a run the counts of stats.locations add up to
\* stats.sorted_images, every key is the folder name of a location that has a
\* coordinate, and every count is at least 1; also when two addresses have the
\* same folder name.
RECURSIVE SumOver(_, _)
SumOver(f, keys) ==
    IF keys = {} THEN 0
    ELSE LET k == CHOOSE x \in keys : TRUE IN f[k] + SumOver(f, keys \ {k})

ResolvedNames == {locations[k].name : k \in {j \in 1..Len(locations) :
                                                 locations[j].coordinates # None}}

C25_PerLocationCountsAddUp ==
    /\ SumOver(stats.locations, DOMAIN stats.locations) = stats.sorted_images
    /\ DOMAIN stats.locations \subseteq ResolvedNames
    /\ \A n \in DOMAIN stats.locations : stats.locations[n] >= 1
    /\ stats.sorted_images = Cardinality({k \in WithOutcome("matched") : processed[k].placed})

\* Two images matched to two different addresses, counted under one key.
C25_Witness ==
    /\ Len(processed) = 2
    /\ processed[1].outcome = "matched" /\ processed[2].outcome = "matched"
    /\ processed[1].closest.address # processed[2].closest.address
    /\ processed[1].closest.name = processed[2].closest.name
    /\ stats.locations[processed[1].closest.name] = 2
    /\ stats.sorted_images = 2

\* C27: never more than one worker thread is alive; from the launch of a worker
\* until its 'finished' message has been handled the Start button is disabled
\* (and is_running holds), and it is enabled otherwise; 'finished' is on the
\* queue only when sort_photos has returned or raised.
FinishedHandled == \E k \in 1..Len(seen) : seen[k] = "finished"
RunUnfinished == runs > 0 /\ ~FinishedHandled

C27_OneWorkerAtATime ==
    /\ workers \in {0, 1}
    /\ workers = 1 => RunUnfinished
    /\ RunUnfinished <=> start_button = "disabled"
    /\ RunUnfinished <=> is_running
    /\ workers = 1 <=> pc \notin {"idle", "done"}
    /\ Delivered("finished") => pc = "done" /\ exitPath # "running"

\* A second run in progress, its worker alive.
C27_Witness ==
    /\ runs = 2
    /\ workers = 1
    /\ pc = "sort_body"
    /\ start_button = "disabled"

\* C28: 'finished' is put on the queue once per run, as the last message, also
\* when sort_photos raised or was cancelled; the foreground handles the messages
\* in the order they were put; once it has handled 'finished', is_running is
\* false, Start is enabled and Cancel is disabled; and every run that was started
\* gets there.
SeenInOrder ==
    /\ Len(seen) = handled
    /\ \A k \in 1..handled : seen[k] = events[k].type

GuiIdle == ~is_running /\ start_button = "normal" /\ cancel_button = "disabled"

FinishedOnceAndLast ==
    /\ \A k \in EventsOf("finished") : k = Len(events)
    /\ pc = "done" <=> Delivered("finished")
    /\ SeenInOrder
    /\ FinishedHandled => GuiIdle /\ handled = Len(events) /\ workers = 0

C29_CancelledOnlyIfStoppedEarly ==
    FinishedHandled =>
        /\ status_var = "Cancelled" =>
              /\ cancelSeen
              /\ exitPath = "cancelled"
              /\ ~Delivered("sorting_complete")
        /\ exitPath = "complete" => status_var = "Complete"

====
